---- MODULE Spec2Model ----
(***************************************************************************)
(* Frame-indexed animation engine of remotion-poc-v2.                      *)
(*                                                                         *)
(* The timeline is driven by one frame counter.  Every render evaluates    *)
(* the component tree at the current frame:                                *)
(*   - the StarsAndProductivity orchestrator (zoom transition, scene       *)
(*     visibility, the tablet Sequence),                                   *)
(*   - the Tablet inside that Sequence (toFullscreen, the two wheels),     *)
(* keeping React's useMemo caches between renders.  The cockpit            *)
(* StarsGiven scene (seeded hit selection, HUD values) is a component of   *)
(* its own, rendered by CockpitSpec.                                       *)
(*                                                                         *)
(* Spec is the composition played, scrubbed and re-rendered.  WheelSpec    *)
(* renders the Wheel component alone with any props of its type, and       *)
(* PartsSpec evaluates each part of the scene (tablet layers, wheel        *)
(* labels, bars, entry and exit progress) on its own at every frame.       *)
(*                                                                         *)
(* Real numbers are exact rationals: a value is kept as an integer         *)
(* numerator over a denominator named in the comment of its definition.    *)
(***************************************************************************)
EXTENDS Integers, Sequences, FiniteSets, TLC

VARIABLES frame, props, memo, view, zoomRun, tabletRun

vars == <<frame, props, memo, view, zoomRun, tabletRun>>

(***************************************************************************)
(* Bounds of the model.                                                    *)
(***************************************************************************)
\* Frames 0..MaxFrame are evaluated (the components are functions of the
\* frame; they cover every window of the compositions modelled).
MaxFrame == 420

(***************************************************************************)
(* Arithmetic helpers.                                                     *)
(***************************************************************************)
Max(a, b) == IF a >= b THEN a ELSE b

Min(a, b) == IF a <= b THEN a ELSE b

Abs(a) == IF a < 0 THEN 0 - a ELSE a

RECURSIVE GCD(_, _)
GCD(a, b) == IF b = 0 THEN a ELSE GCD(b, a % b)

LCM(a, b) == (a \div GCD(a, b)) * b

Cube(a) == a * a * a

\* Math.round of a rational a/b, b > 0: floor(a/b + 1/2)
Round(a, b) == (2 * a + b) \div (2 * b)

Range(s) == {s[i] : i \in 1..Len(s)}

\* the rational n/d, d > 0, in lowest terms
Rat(n, d) ==
  LET g == GCD(Abs(n), d) IN [n |-> n \div g, d |-> d \div g]

(***************************************************************************)
(* Easing: gsap.parseEase("power2.out") and the clamp01 helper.            *)
(***************************************************************************)
\* clamp01 without the upper clamp
clamp01_NoUpper(k, d) == Max(0, k)

\* clamp01(k/d) as a numerator over d
clamp01(k, d) == Max(0, Min(d, k))

\* power2.out(c/d) = 1 - (1 - c/d)^3 as a numerator over d^3
ease(c, d) == Cube(d) - Cube(d - c)

(***************************************************************************)
(* Orchestrator: stars-and-productivity(-with-audio)/index.tsx             *)
(***************************************************************************)
TABLET_SCENE_LENGTH == 150

TABLET_SCENE_HIDE_ANIMATION == 45

TABLET_ENTER_DURATION == 45

\* stars-given/index.tsx: the simplified scene always lasts 150 frames
getStarFlyDuration == 150

getTimeUntilTabletHides == getStarFlyDuration + TABLET_SCENE_LENGTH

\* a total that leaves out the hide animation
getStarsAndProductivityDuration_NoHide == getTimeUntilTabletHides

getStarsAndProductivityDuration == getTimeUntilTabletHides + TABLET_SCENE_HIDE_ANIMATION

\* denominator of entryProgress, exitProgress and zoomTransition
ZoomDen == LCM(Cube(TABLET_ENTER_DURATION), Cube(TABLET_SCENE_HIDE_ANIMATION))

\* entryRaw = (frame - starFlyDuration) / TABLET_ENTER_DURATION, numerator
entryRaw(f, starFlyDuration) == f - starFlyDuration

\* entryProgress = ease(clamp01(entryRaw)), numerator over ZoomDen
entryProgress(f, starFlyDuration) ==
  ease(clamp01(entryRaw(f, starFlyDuration), TABLET_ENTER_DURATION), TABLET_ENTER_DURATION)
    * (ZoomDen \div Cube(TABLET_ENTER_DURATION))

\* exitRaw counted from the start of the tablet scene, not from its end
exitRaw_NoHold(f, starFlyDuration) == f - starFlyDuration

\* exitRaw = (frame - (starFlyDuration + TABLET_SCENE_LENGTH)) / HIDE, numerator
exitRaw(f, starFlyDuration) == f - (starFlyDuration + TABLET_SCENE_LENGTH)

\* exitProgress = ease(clamp01(exitRaw)), numerator over ZoomDen
exitProgress(f, starFlyDuration) ==
  ease(clamp01(exitRaw(f, starFlyDuration), TABLET_SCENE_HIDE_ANIMATION), TABLET_SCENE_HIDE_ANIMATION)
    * (ZoomDen \div Cube(TABLET_SCENE_HIDE_ANIMATION))

\* zoomTransition = entryProgress - exitProgress, numerator over ZoomDen
zoomTransition(f, starFlyDuration) ==
  entryProgress(f, starFlyDuration) - exitProgress(f, starFlyDuration)

\* translateX = zoomTransition * 270, numerator over ZoomDen
translateX(z) == z * 270

\* translateY = zoomTransition * -270, numerator over ZoomDen
translateY(z) == z * (0 - 270)

\* scale = 1 + zoomTransition * 0.5, numerator over 2 * ZoomDen
scale(z) == 2 * ZoomDen + z

\* opacity = 1 - zoomTransition * 0.7, numerator over 10 * ZoomDen
opacity(z) == 10 * ZoomDen - 7 * z

\* the style object built inside the starStyle memo
starStyle(tx, ty, sc, op) ==
  [translateX |-> tx, translateY |-> ty, scale |-> sc, opacity |-> op]

\* timeUntilTabletIsEntered = starFlyDuration + 46
timeUntilTabletIsEntered(starFlyDuration) == starFlyDuration + 46

\* {frame < timeUntilTabletIsEntered || frame > timeUntilTabletHides ? <StarsGiven/> : null}
StarsGivenMounted(f, starFlyDuration, timeUntilTabletHides) ==
  f < timeUntilTabletIsEntered(starFlyDuration) \/ f > timeUntilTabletHides

(***************************************************************************)
(* StarsGiven (simplified scene): stars-given/index.tsx.  It is rendered   *)
(* outside any Sequence, so its frame is the composition's frame.          *)
(***************************************************************************)
\* interpolate(x, [a, b], [c, d], {extrapolateLeft: "clamp", extrapolateRight:
\* "clamp"}), numerator over b - a
interpolateClamp(x, a, b, c, d) ==
  c * (b - a) + Max(0, Min(b - a, x - a)) * (d - c)

\* backgroundOpacity = interpolate(frame, [0, 10], [0, 1], clamp), over 10
backgroundOpacity(f) == interpolateClamp(f, 0, 10, 0, 1)

STARS_TEXT_DELAY == 10

STARS_TEXT_DURATION == 50

\* textProgress = Math.max(0, Math.min(1, (frame - textDelay) / textDuration)),
\* over textDuration
textProgress(f) == Max(0, Min(STARS_TEXT_DURATION, f - STARS_TEXT_DELAY))

\* textEased = ease(textProgress), over textDuration^3
textEased(f) == ease(textProgress(f), STARS_TEXT_DURATION)

\* fadeOutOpacity = interpolate(frame, [120, 150], [1, 0], clamp), over 30
fadeOutOpacity(f) == interpolateClamp(f, 120, 150, 1, 0)

\* opacity of the gradient background: backgroundOpacity * fadeOutOpacity, over 300
starsBackgroundOpacity(f) == backgroundOpacity(f) * fadeOutOpacity(f)

\* denominator of the text layer's opacity
StarsTextDen == Cube(STARS_TEXT_DURATION) * 30

\* opacity of the text layer: textOpacity * fadeOutOpacity, over StarsTextDen
starsTextOpacity(f) == textEased(f) * fadeOutOpacity(f)

(***************************************************************************)
(* Sequence: a child in <Sequence from durationInFrames> is rendered at    *)
(* the parent frames from <= frame < from + durationInFrames and sees      *)
(* useCurrentFrame() = frame - from.                                       *)
(***************************************************************************)
SequenceActive(f, from, durationInFrames) ==
  from <= f /\ f < from + durationInFrames

\* a Sequence that hands the parent frame to its child
SequenceFrame_NoOffset(f, from) == f

SequenceFrame(f, from) == f - from

\* a tablet window that leaves out the hide animation
TabletSequenceDuration_NoHide == TABLET_SCENE_LENGTH

\* <Sequence from={starFlyDuration} durationInFrames={LENGTH + HIDE}>
TabletSequenceDuration == TABLET_SCENE_LENGTH + TABLET_SCENE_HIDE_ANIMATION

TabletMounted(f, starFlyDuration) ==
  SequenceActive(f, starFlyDuration, TabletSequenceDuration)

(***************************************************************************)
(* Tablet: toFullscreenFull over the tablet's local frame.                 *)
(***************************************************************************)
TABLET_SCENE_ENTER_ANIMATION == 16

TABLET_SCENE_ENTER_ANIMATION_DELAY == 30

\* denominator of the tablet's entryProgress, exitProgress, toFullscreenFull
TabletDen == LCM(Cube(TABLET_SCENE_ENTER_ANIMATION), Cube(TABLET_SCENE_HIDE_ANIMATION))

tabletEntryProgress(lf) ==
  ease(clamp01(lf - TABLET_SCENE_ENTER_ANIMATION_DELAY, TABLET_SCENE_ENTER_ANIMATION),
       TABLET_SCENE_ENTER_ANIMATION)
    * (TabletDen \div Cube(TABLET_SCENE_ENTER_ANIMATION))

tabletExitProgress(lf) ==
  ease(clamp01(lf - TABLET_SCENE_LENGTH, TABLET_SCENE_HIDE_ANIMATION),
       TABLET_SCENE_HIDE_ANIMATION)
    * (TabletDen \div Cube(TABLET_SCENE_HIDE_ANIMATION))

\* toFullscreenFull = entryProgress - exitProgress, numerator over TabletDen
toFullscreenFull(lf) == tabletEntryProgress(lf) - tabletExitProgress(lf)

\* toFullscreen = 0.68 * toFullscreenFull, a rational in lowest terms
toFullscreen(lf) ==
  LET full == Rat(toFullscreenFull(lf), TabletDen) IN Rat(68 * full.n, 100 * full.d)

SCREEN_ROTATION_Y == 15

SCREEN_ROTATION_X == 0 - 10

SKEW_X == 7

SKEW_Y == 0 - 4

\* (1 - toFullscreen) * base
chartTransform(tf, base) == Rat((tf.d - tf.n) * base, tf.d)

\* the parent given the chart's sign
parentTransform_SameSign(tf, base) == Rat((tf.d - tf.n) * base, tf.d)

\* -(1 - toFullscreen) * base
parentTransform(tf, base) == Rat((0 - (tf.d - tf.n)) * base, tf.d)

rotateYChart(tf) == chartTransform(tf, SCREEN_ROTATION_Y)

rotateXChart(tf) == chartTransform(tf, SCREEN_ROTATION_X)

skewXChart(tf) == chartTransform(tf, SKEW_X)

skewYChart(tf) == chartTransform(tf, SKEW_Y)

rotateYParent(tf) == parentTransform(tf, SCREEN_ROTATION_Y)

rotateXParent(tf) == parentTransform(tf, SCREEN_ROTATION_X)

skewXParent(tf) == parentTransform(tf, SKEW_X)

skewYParent(tf) == parentTransform(tf, SKEW_Y)

\* scaleChart = (1 - toFullscreen) * (0.5 * 0.8) + toFullscreen * 1
scaleChart(tf) == Rat(2 * (tf.d - tf.n) + 5 * tf.n, 5 * tf.d)

\* scaleParent = (1 - toFullscreen) * 1 + toFullscreen * ((1 / (1 - 0.8 * 0.5)) * 1.3),
\* the factor being 13/6
scaleParent(tf) == Rat(6 * (tf.d - tf.n) + 13 * tf.n, 6 * tf.d)

(***************************************************************************)
(* Wheel: productivity/Wheel.tsx, rendered inside the tablet, so its       *)
(* frame is the tablet's local frame.                                      *)
(***************************************************************************)
DURATION_FRAMES == 100

\* denominator of progress and rotationValue
WheelDen == Cube(DURATION_FRAMES)

\* Math.PI as a numerator over WheelDen (floor)
PiNum == 3141592

\* JavaScript %: the result takes the sign of the dividend
JsRem(a, n) == IF a >= 0 THEN a % n ELSE 0 - ((0 - a) % n)

\* framesSinceStart without the floor at 0
framesSinceStart_NoFloor(lf, delay) == lf - delay

\* framesSinceStart = Math.max(0, frame - delay)
framesSinceStart(lf, delay) == Max(0, lf - delay)

\* the spin counted from the frame 0 of the tablet, the delay left out
rawProgress_NoDelay(lf, delay) == Min(DURATION_FRAMES, Max(0, lf))

\* rawProgress = Math.min(1, framesSinceStart / DURATION_FRAMES), over DURATION_FRAMES
rawProgress(lf, delay) == Min(DURATION_FRAMES, framesSinceStart(lf, delay))

\* progress = ease(rawProgress), over WheelDen
progress(lf, delay) == ease(rawProgress(lf, delay), DURATION_FRAMES)

\* rotationValue = (1 - progress) % Math.PI, over WheelDen
rotationValue(lf, delay) == JsRem(WheelDen - progress(lf, delay), PiNum)

\* normalizedIndex = index / values.length + rotationValue, over n * WheelDen
normalizedIndex(index, n, rot) == index * WheelDen + rot * n

\* the wheel counted backwards
currentValueIndex_Backwards(index, value, n) == JsRem(index - value, n)

\* the modulus one short of values.length
currentValueIndex_ShortModulus(index, value, n) == JsRem(index + value, n - 1)

\* the sum without the wraparound
currentValueIndex_NoWrap(index, value, n) == index + value

\* currentValueIndex = (index + Number(value)) % values.length
currentValueIndex(index, value, n) == JsRem(index + value, n)

\* isSelected = Number(value) === currentValueIndex
isSelected(index, value, n) == value = currentValueIndex(index, value, n)

\* highlight one frame early
shouldHighlight_Inclusive(lf, delay) == lf - 5 >= delay

\* shouldHighlight = frame - 5 > delay
shouldHighlight(lf, delay) == lf - 5 > delay

\* textOpacity = isSelected && shouldHighlight ? 1 : 0.3, over 10
textOpacity(index, value, n, lf, delay) ==
  IF isSelected(index, value, n) /\ shouldHighlight(lf, delay) THEN 10 ELSE 3

\* values[currentValueIndex]: an array read outside 0..length-1 gives undefined
valueAt(cvi, n) == [defined |-> (cvi >= 0 /\ cvi < n), index |-> cvi]

\* angle = normalizedIndex * -Math.PI * 2, in units of 2 pi rad (turns),
\* numerator over n * WheelDen
angle(ni) == ni * (0 - 1)

\* `${x}` of a number: a minus sign when x < 0, then the digits of |x|
numberToString(x) == [minus |-> IF x < 0 THEN 1 ELSE 0, abs |-> Abs(x)]

\* the item's transform ends with `rotateX(${angle}rad)`
itemRotateX(a) == numberToString(a)

\* the label's transform is `rotateX(-${angle}rad)`: a minus sign, then the
\* number as printed
labelRotateX(a) ==
  [minus |-> 1 + numberToString(a).minus, abs |-> numberToString(a).abs]

\* The rotation a CSS rotateX(<angle>) gives: a number carries at most one
\* sign; a declaration whose value does not parse is dropped, so the element
\* is not rotated.
cssRotation(t) ==
  IF t.minus = 0 THEN [valid |-> TRUE, angle |-> t.abs]
  ELSE IF t.minus = 1 THEN [valid |-> TRUE, angle |-> 0 - t.abs]
  ELSE [valid |-> FALSE, angle |-> 0]

\* One rendered wheel: values.map((item, index) => ...).  angle is
\* normalizedIndex * -2 pi, so an item stands at the front of the wheel
\* (angle a multiple of a full turn, zPosition = radius) exactly when
\* normalizedIndex is a whole number.
Wheel(value, n, delay, lf) ==
  LET rot == rotationValue(lf, delay) IN
  [ progress |-> progress(lf, delay),
    rotationValue |-> rot,
    items |-> [ index \in 0..(n - 1) |->
      [ normalizedIndex   |-> normalizedIndex(index, n, rot),
        atFront           |-> normalizedIndex(index, n, rot) % (n * WheelDen) = 0,
        currentValueIndex |-> currentValueIndex(index, value, n),
        isSelected        |-> isSelected(index, value, n),
        textOpacity       |-> textOpacity(index, value, n, lf, delay) ] ] ]

\* The label of each item: the value it displays (values[currentValueIndex]),
\* the rotation of the item and the rotation of the label <div> inside it.
WheelLabels(value, n, delay, lf) ==
  LET rot == rotationValue(lf, delay) IN
  [ index \in 0..(n - 1) |->
      [ label         |-> valueAt(currentValueIndex(index, value, n), n),
        rotation      |-> cssRotation(itemRotateX(angle(normalizedIndex(index, n, rot)))),
        labelRotation |-> cssRotation(labelRotateX(angle(normalizedIndex(index, n, rot)))) ] ]

\* productivity/Productivity.tsx: the weekday wheel and the hour wheel
WeekdayValues == 7

WeekdayDelay == 60

HourValues == 24

HourDelay == 70

(***************************************************************************)
(* ProductivityGraph and its bars: productivity/Productivity.tsx.          *)
(***************************************************************************)
\* graphData as a sequence of [time, productivity] from the productivities
DataPoints(ps) == [i \in 1..Len(ps) |-> [time |-> i - 1, productivity |-> ps[i]]]

MOCK_PRODUCTIVITY_DATA ==
  DataPoints(<<0, 0, 0, 0, 0, 5, 15, 25, 45, 65, 70, 60,
               50, 55, 45, 35, 25, 15, 10, 5, 0, 0, 0, 0>>)

\* the data of an account without any activity
NoActivityData ==
  DataPoints(<<0, 0, 0, 0, 0, 0, 0, 0, 0, 0, 0, 0,
               0, 0, 0, 0, 0, 0, 0, 0, 0, 0, 0, 0>>)

\* maxProductivity = Math.max(...productivityPerHour.map(p => p.productivity))
maxProductivity(data) ==
  CHOOSE m \in {data[i].productivity : i \in 1..Len(data)} :
    \A i \in 1..Len(data) : data[i].productivity <= m

\* JavaScript a / b for a >= 0, b >= 0: 0/0 is NaN, a/0 is Infinity
divide(a, b) ==
  IF b = 0
  THEN [kind |-> IF a = 0 THEN "NaN" ELSE "Infinity", n |-> 0, d |-> 1]
  ELSE [kind |-> "finite", n |-> a, d |-> b]

BAR_DURATION_FRAMES == 60

\* DELAY_FRAMES = 30 + props.index * 2
barDelayFrames(index) == 30 + index * 2

\* framesSinceStart = Math.max(0, frame - DELAY_FRAMES)
barFramesSinceStart(lf, index) == Max(0, lf - barDelayFrames(index))

\* progress = Math.max(0, Math.min(1, framesSinceStart / DURATION_FRAMES)),
\* over BAR_DURATION_FRAMES
barProgress(lf, index) == clamp01(barFramesSinceStart(lf, index), BAR_DURATION_FRAMES)

\* easedProgress = power2.out(progress), over BAR_DURATION_FRAMES^3
barEasedProgress(lf, index) == ease(barProgress(lf, index), BAR_DURATION_FRAMES)

Bar(productivity, index, mostProductive, lf) ==
  [ index |-> index,
    easedProgress |-> barEasedProgress(lf, index),
    productivity |-> productivity,
    mostProductive |-> mostProductive ]

\* props.productivityPerHour.map(point => <Bar .../>)
ProductivityGraph(data, lf) ==
  LET mx == maxProductivity(data) IN
  [ i \in 1..Len(data) |->
      Bar(divide(data[i].productivity, mx), data[i].time,
          data[i].productivity = mx /\ mx > 0, lf) ]

(***************************************************************************)
(* Sound: audio-constants.ts and the <Audio> elements of the composition.  *)
(***************************************************************************)
AUDIO_TIMING ==
  [ BACKGROUND_MUSIC |-> 0, STARS_WHOOSH |-> 10, TABLET_ENTRY |-> 150,
    BARS_ANIMATE |-> 180, WEEKDAY_WHEEL |-> 195, HOUR_WHEEL |-> 220 ]

\* soundDelay of the two TopDayWithAudio panes
WeekdaySoundDelay == 95

HourSoundDelay == 120

\* audioTiming = soundDelay === 95 ? AUDIO_TIMING.WEEKDAY_WHEEL : AUDIO_TIMING.HOUR_WHEEL
audioTiming(soundDelay) ==
  IF soundDelay = 95 THEN AUDIO_TIMING.WEEKDAY_WHEEL ELSE AUDIO_TIMING.HOUR_WHEEL

\* <Audio startFrom={n}/> rendered at the frame lf of the timeline it is
\* mounted in: the sound plays whenever the element is rendered, and startFrom
\* trims the beginning of the media, so at lf the media is at its frame
\* lf + n (a looped media wraps around at its own length).
Audio(lf, startFrom) == [mounted |-> TRUE, mediaFrame |-> lf + startFrom]

NoAudio == [mounted |-> FALSE]

\* The <Audio> elements of the tree at composition frame f: the music in the
\* orchestrator, the whoosh in StarsGiven, and inside the tablet's Sequence
\* the entry sound (Tablet), the bars sound (Productivity) and one sound per
\* wheel pane (TopDay).
AudioElements(f, starFlyDuration, timeUntilTabletHides) ==
  LET lf == SequenceFrame(f, starFlyDuration)
      inStars == StarsGivenMounted(f, starFlyDuration, timeUntilTabletHides)
      inTablet == TabletMounted(f, starFlyDuration)
  IN
  [ BACKGROUND_MUSIC |-> Audio(f, AUDIO_TIMING.BACKGROUND_MUSIC),
    STARS_WHOOSH |-> IF inStars THEN Audio(f, AUDIO_TIMING.STARS_WHOOSH) ELSE NoAudio,
    TABLET_ENTRY |-> IF inTablet THEN Audio(lf, AUDIO_TIMING.TABLET_ENTRY) ELSE NoAudio,
    BARS_ANIMATE |-> IF inTablet THEN Audio(lf, AUDIO_TIMING.BARS_ANIMATE) ELSE NoAudio,
    WEEKDAY_WHEEL |-> IF inTablet THEN Audio(lf, audioTiming(WeekdaySoundDelay)) ELSE NoAudio,
    HOUR_WHEEL |-> IF inTablet THEN Audio(lf, audioTiming(HourSoundDelay)) ELSE NoAudio ]

(***************************************************************************)
(* Cockpit scene: test-scenes/components/StarsFlying.tsx and StarsGiven.   *)
(***************************************************************************)
TIME_INBETWEEN_STARS == 10

MAX_STARS == 20

STAR_ANIMATION_DELAY == 20

MAX_HITS == 8

ANIMATION_DURATION_PER_STAR == 20

\* STAR_EXPLODE_DURATION is exported by ./StarSprite, which is not among the
\* sources; the value is the documented one (scene overview: 30 frames), the
\* one that gives the cockpit window of 471 frames its documented meaning
\* (260 + 150 + 60 = 470).  Another document lists 10; the properties of the
\* cockpit scene hold, and fail, alike with either value.
STAR_EXPLODE_DURATION == 30

\* getStarBurstFirstFrame({duration: ANIMATION_DURATION_PER_STAR, hitSpaceship: true})
getStarBurstFirstFrame == 10

\* sampleStarredRepos.length
SampleStarredRepos == 5

\* the count without its floor of 5
getActualStars_NoFloor(starsGiven) == Min(starsGiven * 2, MAX_STARS)

\* getActualStars = Math.max(5, Math.min(starsGiven * 2, MAX_STARS))
getActualStars(starsGiven) == Max(5, Min(starsGiven * 2, MAX_STARS))

\* the seeds the calls modelled draw: `starsGiven1` .. `starsGiven23`
SeedsDrawn == 23

\* random(`starsGiven${i}`): the seeded generator is a fixed function of its
\* seed; its 32-bit result r (random = r / 2^32) is kept as <<r div 2^16, r mod 2^16>>.
random(i) ==
  << <<4779, 53374>>, <<30610, 11650>>, <<36112, 47581>>, <<35281, 27453>>,
     <<24990, 15017>>, <<21483, 48933>>, <<46916, 35075>>, <<36883, 18551>>,
     <<2280, 54713>>, <<8492, 17774>>, <<42562, 59407>>, <<62405, 44914>>,
     <<51582, 11978>>, <<39942, 25313>>, <<44224, 2756>>, <<44263, 12537>>,
     <<29913, 20684>>, <<25641, 54591>>, <<30359, 27889>>, <<5557, 62528>>,
     <<8735, 36135>>, <<25980, 33624>>, <<14534, 50929>> >>[i]

\* Math.floor(random(seed) * starsDisplayed)
randomIndex(i, starsDisplayed) ==
  (random(i)[1] * starsDisplayed + (random(i)[2] * starsDisplayed) \div 65536) \div 65536

\* while (hitIndexes.size < maxHits) { i++; hitIndexes.add(...) }, the Set kept
\* in insertion order as Array.from returns it
RECURSIVE hitLoop(_, _, _, _)
hitLoop(hitIndexes, i, maxHits, starsDisplayed) ==
  IF Len(hitIndexes) < maxHits
  THEN LET v == randomIndex(i + 1, starsDisplayed) IN
       hitLoop(IF v \in Range(hitIndexes) THEN hitIndexes ELSE Append(hitIndexes, v),
               i + 1, maxHits, starsDisplayed)
  ELSE hitIndexes

getHitIndexes(starsDisplayed, starsGiven) ==
  hitLoop(<<>>, 0, Min(starsGiven, MAX_HITS), starsDisplayed)

\* getStarFlyDuration({starsGiven}) of the cockpit scene
getStarFlyDurationOf(starsGiven) ==
  (getActualStars(starsGiven) - 1) * TIME_INBETWEEN_STARS
    + ANIMATION_DURATION_PER_STAR + STAR_ANIMATION_DELAY + STAR_EXPLODE_DURATION

\* ascending sort of a sequence of numbers: .sort((a, b) => a - b)
RECURSIVE sortAscending(_)
sortAscending(s) ==
  IF Len(s) = 0 THEN <<>>
  ELSE LET m == CHOOSE x \in Range(s) : \A y \in Range(s) : x <= y
           k == CHOOSE j \in 1..Len(s) : s[j] = m
       IN <<m>> \o sortAscending(SubSeq(s, 1, k - 1) \o SubSeq(s, k + 1, Len(s)))

\* hits = hitIndices.map(index => burst + index * TIME_INBETWEEN_STARS + DELAY).sort()
computeHits(hitIndices) ==
  sortAscending([j \in 1..Len(hitIndices) |->
    getStarBurstFirstFrame + hitIndices[j] * TIME_INBETWEEN_STARS + STAR_ANIMATION_DELAY])

\* findIndex in place of findLastIndex
lastItemWithFrameVisible_First(hits, f) ==
  LET S == {j \in 1..Len(hits) : hits[j] < f} IN
  IF S = {} THEN 0 ELSE CHOOSE j \in S : \A k \in S : j <= k

\* hits.findLastIndex(i => i < frame) + 1 (0 when no hit is before the frame)
lastItemWithFrameVisible(hits, f) ==
  LET S == {j \in 1..Len(hits) : hits[j] < f} IN
  IF S = {} THEN 0 ELSE CHOOSE j \in S : \A k \in S : k <= j

\* the HUD repository text; opacity is a numerator over 2
\* (interpolate(distanceToHit, [0, 2], [0, 1]) without clamping)
computeText(f, hits) ==
  LET last == lastItemWithFrameVisible(hits, f) IN
  IF last # 0 /\ last - 1 < SampleStarredRepos
  THEN IF last + 1 > Len(hits)
       THEN [shown |-> TRUE, opacity |-> 2, repo |-> last - 1]
       ELSE [shown |-> TRUE,
             opacity |-> Min(Abs(f - hits[last]), Abs(f - hits[last + 1])),
             repo |-> last - 1]
  ELSE [shown |-> FALSE, opacity |-> 0, repo |-> 0]

\* the HUD star counter
computeStarCount(f, hits, starsGiven) ==
  IF Len(hits) = starsGiven
  THEN lastItemWithFrameVisible(hits, f)
  ELSE LET d == getStarFlyDurationOf(starsGiven) - 10
           c == Max(0, Min(d, f))
       IN Round(c * starsGiven, d)

(***************************************************************************)
(* React.useMemo: a cache holds the dependency list and the value of the   *)
(* last computation; the value is recomputed when a dependency changed.    *)
(***************************************************************************)
EmptyCache == [set |-> FALSE, deps |-> <<>>, val |-> 0]

useMemo(cache, deps, fresh) ==
  IF cache.set /\ cache.deps = deps
  THEN cache
  ELSE [set |-> TRUE, deps |-> deps, val |-> fresh]

\* dependency lists, as written in the source
starFlyDurationDeps == <<>>

timeUntilTabletHidesDeps == <<>>

starStyleDeps(tx, ty, sc, op) == <<tx, ty, sc, op>>

starsDisplayedDeps(starsGiven) == <<starsGiven>>

hitIndicesDeps(starsDisplayed, starsGiven) == <<starsDisplayed, starsGiven>>

hitsDeps(hitIndices) == <<hitIndices>>

\* the text memo without the frame among its dependencies
textDeps_NoFrame(f, hits) == <<hits, SampleStarredRepos>>

textDeps(f, hits) == <<f, hits, SampleStarredRepos>>

\* the starCount memo without the frame among its dependencies
starCountDeps_NoFrame(f, hits, starsGiven) == <<hits, starsGiven>>

starCountDeps(f, hits, starsGiven) == <<f, hits, starsGiven>>

\* the three useMemo slots of StarsAndProductivityWithAudio
EmptyMemo ==
  [ starFlyDuration |-> EmptyCache, timeUntilTabletHides |-> EmptyCache,
    starStyle |-> EmptyCache ]

\* The hooks of one render of StarsAndProductivityWithAudio at frame f with
\* props p, starting from caches m.
RenderMemo(f, p, m) ==
  LET sfd == useMemo(m.starFlyDuration, starFlyDurationDeps, getStarFlyDuration)
      tuh == useMemo(m.timeUntilTabletHides, timeUntilTabletHidesDeps, getTimeUntilTabletHides)
      z   == zoomTransition(f, sfd.val)
      tx  == translateX(z)
      ty  == translateY(z)
      sc  == scale(z)
      op  == opacity(z)
      sty == useMemo(m.starStyle, starStyleDeps(tx, ty, sc, op), starStyle(tx, ty, sc, op))
  IN [starFlyDuration |-> sfd, timeUntilTabletHides |-> tuh, starStyle |-> sty]

\* The tablet as rendered at its local frame lf.
TabletView(lf, p) ==
  [ mounted |-> TRUE,
    frame |-> lf,
    entryProgress |-> tabletEntryProgress(lf),
    exitProgress |-> tabletExitProgress(lf),
    toFullscreenFull |-> toFullscreenFull(lf),
    weekdayWheel |-> Wheel(p.topWeekday, WeekdayValues, WeekdayDelay, lf),
    hourWheel |-> Wheel(p.topHour, HourValues, HourDelay, lf) ]

\* The two layers of the tablet at its local frame lf: the tablet frame
\* (parent) and the chart inside the screen.
TabletLayers(lf) ==
  LET tf == toFullscreen(lf) IN
  [ toFullscreen |-> tf,
    parent |-> [ rotateY |-> rotateYParent(tf), rotateX |-> rotateXParent(tf),
                 skewX |-> skewXParent(tf), skewY |-> skewYParent(tf),
                 scale |-> scaleParent(tf) ],
    chart |-> [ rotateY |-> rotateYChart(tf), rotateX |-> rotateXChart(tf),
                skewX |-> skewXChart(tf), skewY |-> skewYChart(tf),
                scale |-> scaleChart(tf) ] ]

\* What one render puts on screen, given the caches m2 after its hooks ran.
RenderView(f, p, m2) ==
  LET sfd == m2.starFlyDuration.val
      tuh == m2.timeUntilTabletHides.val
  IN
  [ zoomTransition |-> zoomTransition(f, sfd),
    audio |-> AudioElements(f, sfd, tuh),
    entryProgress |-> entryProgress(f, sfd),
    exitProgress |-> exitProgress(f, sfd),
    starsGiven |->
      IF StarsGivenMounted(f, sfd, tuh)
      THEN [ mounted |-> TRUE, style |-> m2.starStyle.val,
             backgroundOpacity |-> starsBackgroundOpacity(f),
             textOpacity |-> starsTextOpacity(f) ]
      ELSE [mounted |-> FALSE],
    tablet |->
      IF TabletMounted(f, sfd)
      THEN TabletView(SequenceFrame(f, sfd), p)
      ELSE [mounted |-> FALSE] ]

(***************************************************************************)
(* The state machine of a transitioning element (Hidden, Entering,         *)
(* Visible, Exiting), read off its transition value x over den.            *)
(* "Approximately 0 / 1" is within one hundredth.                          *)
(***************************************************************************)
Tolerance == 100

Phase(x, exit, den) ==
  IF x <= den \div Tolerance THEN "Hidden"
  ELSE IF den - x <= den \div Tolerance THEN "Visible"
  ELSE IF exit = 0 THEN "Entering"
  ELSE "Exiting"

ZoomPhase(v) == Phase(v.zoomTransition, v.exitProgress, ZoomDen)

TabletPhase(t) == Phase(t.toFullscreenFull, t.exitProgress, TabletDen)

\* The phases an element went through during the current uninterrupted
\* playback, consecutive repetitions merged; fromStart tells whether the
\* playback began at the element's frame 0.
NoRun == [fromStart |-> FALSE, phases |-> <<>>]

StartRun(atZero, ph) == [fromStart |-> atZero, phases |-> <<ph>>]

ExtendRun(run, ph) ==
  IF Len(run.phases) > 0 /\ run.phases[Len(run.phases)] = ph
  THEN run
  ELSE [run EXCEPT !.phases = Append(@, ph)]

(***************************************************************************)
(* Inputs.                                                                 *)
(***************************************************************************)
\* props of the composition: starsGiven, topWeekday (0-6), topHour (0-23)
PropsSet ==
  { [starsGiven |-> 42, topWeekday |-> 3, topHour |-> 14],
    [starsGiven |-> 0,  topWeekday |-> 0, topHour |-> 0],
    [starsGiven |-> 3,  topWeekday |-> 6, topHour |-> 23],
    [starsGiven |-> 8,  topWeekday |-> 2, topHour |-> 7] }

\* frames the playhead can be dragged to
SeekFrames == {0, 75, 150, 195, 196, 210, 300, 301, 344, 345, MaxFrame}

(***************************************************************************)
(* Init and the actions: every action renders the tree at a frame.         *)
(***************************************************************************)
Render(f, p, m) ==
  LET m2 == RenderMemo(f, p, m) IN [memo |-> m2, view |-> RenderView(f, p, m2)]

Init ==
  /\ frame = 0
  /\ props \in PropsSet
  /\ memo = Render(0, props, EmptyMemo).memo
  /\ view = Render(0, props, EmptyMemo).view
  /\ zoomRun = StartRun(TRUE, ZoomPhase(view))
  /\ tabletRun = IF view.tablet.mounted
                 THEN StartRun(view.tablet.frame = 0, TabletPhase(view.tablet))
                 ELSE NoRun

\* Render frame f with props p; continuing tells whether f follows the
\* previous frame in playback.
Go(f, p, continuing) ==
  LET r == Render(f, p, memo) IN
  /\ frame' = f
  /\ props' = p
  /\ memo' = r.memo
  /\ view' = r.view
  /\ zoomRun' = IF continuing
                THEN ExtendRun(zoomRun, ZoomPhase(r.view))
                ELSE StartRun(f = 0, ZoomPhase(r.view))
  /\ tabletRun' = IF ~r.view.tablet.mounted THEN NoRun
                  ELSE IF continuing /\ view.tablet.mounted
                       THEN ExtendRun(tabletRun, TabletPhase(r.view.tablet))
                       ELSE StartRun(r.view.tablet.frame = 0, TabletPhase(r.view.tablet))

\* playback: the next frame
NextFrame == frame < MaxFrame /\ Go(frame + 1, props, TRUE)

\* scrubbing backwards by one frame
PrevFrame == frame > 0 /\ Go(frame - 1, props, FALSE)

\* the playhead jumps to another frame
Seek(f) == f # frame /\ Go(f, props, FALSE)

\* the same frame is rendered again
Rerender == Go(frame, props, TRUE)

\* the input props change; React renders the current frame again
SetProps(p) == p # props /\ Go(frame, p, TRUE)

Next ==
  \/ NextFrame
  \/ PrevFrame
  \/ \E f \in SeekFrames : Seek(f)
  \/ Rerender
  \/ \E p \in PropsSet : SetProps(p)

Spec == Init /\ [][Next]_vars

(***************************************************************************)
(* The Wheel component on its own timeline, with the props its callers     *)
(* give it: value is a string taken from the composition's props and read  *)
(* with Number(value), values the 7 weekdays or the 24 hours.  frame is    *)
(* the wheel's frame, props its props, view what it returns; the other     *)
(* variables are not used.                                                 *)
(***************************************************************************)
\* [value, n = values.length, delay]
WheelPropsSet ==
  { [value |-> 3,     n |-> 7,  delay |-> 60],
    [value |-> 0,     n |-> 7,  delay |-> 60],
    [value |-> 6,     n |-> 7,  delay |-> 60],
    [value |-> 9,     n |-> 7,  delay |-> 60],
    [value |-> 0 - 1, n |-> 7,  delay |-> 60],
    [value |-> 14,    n |-> 24, delay |-> 70],
    [value |-> 0 - 3, n |-> 24, delay |-> 70] }

\* The component validates nothing and has no early return: for every props
\* and frame it returns its <AbsoluteFill> with values.map(...) inside.
WheelComponent(p, lf) ==
  [ rendered |-> TRUE,
    wheel |-> Wheel(p.value, p.n, p.delay, lf),
    labels |-> WheelLabels(p.value, p.n, p.delay, lf) ]

WheelInit ==
  /\ frame = 0
  /\ props \in WheelPropsSet
  /\ view = WheelComponent(props, 0)
  /\ memo = EmptyMemo
  /\ zoomRun = NoRun
  /\ tabletRun = NoRun

WheelGo(f, p) ==
  /\ frame' = f
  /\ props' = p
  /\ view' = WheelComponent(p, f)
  /\ UNCHANGED <<memo, zoomRun, tabletRun>>

WheelNextFrame == frame < MaxFrame /\ WheelGo(frame + 1, props)

WheelPrevFrame == frame > 0 /\ WheelGo(frame - 1, props)

WheelSetProps(p) == p # props /\ WheelGo(frame, p)

WheelNext ==
  \/ WheelNextFrame
  \/ WheelPrevFrame
  \/ \E p \in WheelPropsSet : WheelSetProps(p)

WheelSpec == WheelInit /\ [][WheelNext]_vars

(***************************************************************************)
(* The parts of the scene, each evaluated on its own at the frame: the     *)
(* orchestrator's entry and exit, and the tablet with its layers, wheels   *)
(* and bars at local frame = frame.  props are the tablet's props          *)
(* (weekday, hour, graphData).                                             *)
(***************************************************************************)
PartsPropsSet ==
  { [topWeekday |-> 3, topHour |-> 14, graphData |-> MOCK_PRODUCTIVITY_DATA],
    [topWeekday |-> 0, topHour |-> 0,  graphData |-> NoActivityData],
    [topWeekday |-> 6, topHour |-> 23, graphData |-> MOCK_PRODUCTIVITY_DATA] }

Parts(f, p) ==
  [ entryProgress |-> entryProgress(f, getStarFlyDuration),
    exitProgress |-> exitProgress(f, getStarFlyDuration),
    tablet |-> TabletView(f, p),
    layers |-> TabletLayers(f),
    weekdayLabels |-> WheelLabels(p.topWeekday, WeekdayValues, WeekdayDelay, f),
    hourLabels |-> WheelLabels(p.topHour, HourValues, HourDelay, f),
    bars |-> ProductivityGraph(p.graphData, f) ]

PartsInit ==
  /\ frame = 0
  /\ props \in PartsPropsSet
  /\ view = Parts(0, props)
  /\ memo = EmptyMemo
  /\ zoomRun = NoRun
  /\ tabletRun = NoRun

PartsGo(f, p) ==
  /\ frame' = f
  /\ props' = p
  /\ view' = Parts(f, p)
  /\ UNCHANGED <<memo, zoomRun, tabletRun>>

PartsNextFrame == frame < MaxFrame /\ PartsGo(frame + 1, props)

PartsPrevFrame == frame > 0 /\ PartsGo(frame - 1, props)

PartsSetProps(p) == p # props /\ PartsGo(frame, p)

PartsNext ==
  \/ PartsNextFrame
  \/ PartsPrevFrame
  \/ \E p \in PartsPropsSet : PartsSetProps(p)

PartsSpec == PartsInit /\ [][PartsNext]_vars

(***************************************************************************)
(* Nested Sequences on their own: props is the chain of <Sequence> windows *)
(* around a child, outermost first, frame the composition's frame, view    *)
(* what the child is given.  The chains are built from the windows the     *)
(* code uses: the stars layer of the cockpit scene, a star inside          *)
(* StarsFlying, the tablet.                                                *)
(***************************************************************************)
\* durationInFrames of a <Sequence> that does not set it (Infinity): longer
\* than any timeline
Infinity == 1000000

\* <Sequence durationInFrames={timeUntilTabletHasEntered}> of the cockpit
\* scene, timeUntilTabletHasEntered being what the parent passes:
\* starFlyDuration + TABLET_SCENE_ENTER_ANIMATION_DELAY + TABLET_SCENE_ENTER_ANIMATION
StarsLayerWindow(starsGiven) ==
  [ from |-> 0,
    durationInFrames |-> getStarFlyDurationOf(starsGiven)
      + TABLET_SCENE_ENTER_ANIMATION_DELAY + TABLET_SCENE_ENTER_ANIMATION ]

\* <Sequence from={index * TIME_INBETWEEN_STARS + STAR_ANIMATION_DELAY}>
StarWindow(index) ==
  [ from |-> index * TIME_INBETWEEN_STARS + STAR_ANIMATION_DELAY,
    durationInFrames |-> Infinity ]

\* <Sequence from={starFlyDuration} durationInFrames={LENGTH + HIDE}>
TabletWindow ==
  [from |-> getStarFlyDuration, durationInFrames |-> TabletSequenceDuration]

SequenceWindows == {StarsLayerWindow(3), StarWindow(0), StarWindow(2), TabletWindow}

\* the deepest chain of Sequences
MaxDepth == 3

\* a child that is offset by the innermost Sequence only
NestedSequence_InnermostOnly(f, ws) ==
  IF Len(ws) = 0 THEN [active |-> TRUE, frame |-> f]
  ELSE [ active |-> \A k \in 1..Len(ws) :
                      SequenceActive(f, ws[k].from, ws[k].durationInFrames),
         frame |-> SequenceFrame(f, ws[Len(ws)].from) ]

\* The chain evaluated as the tree is rendered, outermost Sequence first:
\* each Sequence is given its parent's frame, renders its children only
\* inside its window, and hands them that frame less its from.
RECURSIVE NestedSequence(_, _)
NestedSequence(f, ws) ==
  IF Len(ws) = 0 THEN [active |-> TRUE, frame |-> f]
  ELSE LET inner == NestedSequence(SequenceFrame(f, ws[1].from), Tail(ws)) IN
       [ active |-> SequenceActive(f, ws[1].from, ws[1].durationInFrames) /\ inner.active,
         frame |-> inner.frame ]

SeqInit ==
  /\ frame = 0
  /\ props = <<>>
  /\ view = NestedSequence(0, <<>>)
  /\ memo = EmptyMemo
  /\ zoomRun = NoRun
  /\ tabletRun = NoRun

SeqGo(f, ws) ==
  /\ frame' = f
  /\ props' = ws
  /\ view' = NestedSequence(f, ws)
  /\ UNCHANGED <<memo, zoomRun, tabletRun>>

SeqNextFrame == frame < MaxFrame /\ SeqGo(frame + 1, props)

SeqPrevFrame == frame > 0 /\ SeqGo(frame - 1, props)

\* one more Sequence is put around the child, inside the others
SeqNest(w) == Len(props) < MaxDepth /\ SeqGo(frame, Append(props, w))

\* the innermost Sequence is taken away
SeqUnnest == Len(props) > 0 /\ SeqGo(frame, SubSeq(props, 1, Len(props) - 1))

SeqNext ==
  \/ SeqNextFrame
  \/ SeqPrevFrame
  \/ \E w \in SequenceWindows : SeqNest(w)
  \/ SeqUnnest

SeqSpec == SeqInit /\ [][SeqNext]_vars

(***************************************************************************)
(* One call of getHitIndexes, statement by statement: props are its        *)
(* arguments, view its local variables (i, the Set hitIndexes in insertion *)
(* order) and, after the return, its value.  The arguments are those for   *)
(* which the Set can reach maxHits elements.                               *)
(***************************************************************************)
\* starsGiven up to MaxStarsGiven; from 10 on every call is the same
\* (20 stars displayed, 8 hits)
MaxStarsGiven == 12

HitArgsSet ==
  { a \in [starsDisplayed : 1..MAX_STARS, starsGiven : 0..MaxStarsGiven] :
      Min(a.starsGiven, MAX_HITS) <= a.starsDisplayed }

\* const maxHits = Math.min(starsGiven, MAX_HITS)
maxHits(starsGiven) == Min(starsGiven, MAX_HITS)

\* an Array push in place of the Set's add
SetAdd_AllowDuplicates(hitIndexes, v) == Append(hitIndexes, v)

\* hitIndexes.add(v) on a Set kept in insertion order
SetAdd(hitIndexes, v) ==
  IF v \in Range(hitIndexes) THEN hitIndexes ELSE Append(hitIndexes, v)

\* const hitIndexes = new Set<number>(); let i = 0;
HitInit ==
  /\ props \in HitArgsSet
  /\ view = [i |-> 0, hitIndexes |-> <<>>, returned |-> FALSE, value |-> <<>>]
  /\ frame = 0
  /\ memo = EmptyMemo
  /\ zoomRun = NoRun
  /\ tabletRun = NoRun

\* one turn of while (hitIndexes.size < maxHits) { i++; hitIndexes.add(...) }
HitStep ==
  /\ ~view.returned
  /\ Len(view.hitIndexes) < maxHits(props.starsGiven)
  /\ view.i < SeedsDrawn
  /\ view' = [view EXCEPT
       !.i = @ + 1,
       !.hitIndexes = SetAdd(@, randomIndex(view.i + 1, props.starsDisplayed))]
  /\ UNCHANGED <<frame, props, memo, zoomRun, tabletRun>>

\* the loop condition is false: return Array.from(hitIndexes)
HitReturn ==
  /\ ~view.returned
  /\ ~(Len(view.hitIndexes) < maxHits(props.starsGiven))
  /\ view' = [view EXCEPT !.returned = TRUE, !.value = view.hitIndexes]
  /\ UNCHANGED <<frame, props, memo, zoomRun, tabletRun>>

HitNext == HitStep \/ HitReturn

HitSpec == HitInit /\ [][HitNext]_vars

\* the call is run: a statement that can execute does execute
HitFairSpec == HitSpec /\ WF_vars(HitNext)

(***************************************************************************)
(* The cockpit scene (the StarsGiven component with StarsFlying) as its    *)
(* parent StarsAndProductivityReplica mounts it: props are the props the   *)
(* parent passes (starsGiven, timeUntilTabletHasEntered,                   *)
(* timeUntilTabletHides), frame is useCurrentFrame(), memo the five        *)
(* useMemo slots of the component, view what it computes and the star      *)
(* instances it renders.  While the parent does not render the scene its   *)
(* hook state is discarded.                                                *)
(***************************************************************************)
\* StarsFlying: new Array(getActualStars(starsGiven)).fill(true).map((_, index) =>
\* <Sequence from={index * 10 + 20}><Star hitSpaceship={...}/></Sequence>),
\* at the frame lf of the stars layer
StarsFlying(starsGiven, hitIndices, lf) ==
  [ index \in 0..(getActualStars(starsGiven) - 1) |->
      [ rendered |-> SequenceActive(lf, StarWindow(index).from,
                                    StarWindow(index).durationInFrames),
        frame |-> SequenceFrame(lf, StarWindow(index).from),
        hitSpaceship |-> index \in Range(hitIndices) ] ]

\* <StarsFlying hitIndices={hitIndices} starsGiven={starCount} />
StarsFlyingArg(starsGiven, starCount) == starCount

\* the five useMemo slots of StarsGiven
CockpitEmptyMemo ==
  [ starsDisplayed |-> EmptyCache, hitIndices |-> EmptyCache, hits |-> EmptyCache,
    text |-> EmptyCache, starCount |-> EmptyCache ]

\* The hooks of one render of StarsGiven at frame f with props p, starting
\* from caches m.
CockpitMemo(f, p, m) ==
  LET sg  == p.starsGiven
      sd  == useMemo(m.starsDisplayed, starsDisplayedDeps(sg), getActualStars(sg))
      hi  == useMemo(m.hitIndices, hitIndicesDeps(sd.val, sg), getHitIndexes(sd.val, sg))
      hs  == useMemo(m.hits, hitsDeps(hi.val), computeHits(hi.val))
      tx  == useMemo(m.text, textDeps(f, hs.val), computeText(f, hs.val))
      cnt == useMemo(m.starCount, starCountDeps(f, hs.val, sg), computeStarCount(f, hs.val, sg))
  IN [starsDisplayed |-> sd, hitIndices |-> hi, hits |-> hs, text |-> tx, starCount |-> cnt]

\* What one render of StarsGiven returns, given the caches m2 after its
\* hooks ran: the stars layer inside
\* <Sequence durationInFrames={timeUntilTabletHasEntered}> and the values
\* handed to the cockpit HUD.
CockpitScene(f, p, m2) ==
  [ mounted |-> TRUE,
    starsDisplayed |-> m2.starsDisplayed.val,
    hitIndices |-> m2.hitIndices.val,
    hits |-> m2.hits.val,
    text |-> m2.text.val,
    starCount |-> m2.starCount.val,
    durationOfStars |-> getStarFlyDurationOf(p.starsGiven),
    starsLayer |->
      IF SequenceActive(f, 0, p.timeUntilTabletHasEntered)
      THEN [ mounted |-> TRUE,
             stars |-> StarsFlying(StarsFlyingArg(p.starsGiven, m2.starCount.val),
                                   m2.hitIndices.val, SequenceFrame(f, 0)) ]
      ELSE [mounted |-> FALSE] ]

\* MOCK_STARS_GIVEN, the starsGiven of StarsAndProductivityReplica
MOCK_STARS_GIVEN == 150

\* the props the parent passes for a starsGiven n:
\* timeUntilTabletIsEntered = starFlyDuration + enter delay + enter animation,
\* timeUntilTabletHides = starFlyDuration + TABLET_SCENE_LENGTH
CockpitProps(n) ==
  [ starsGiven |-> n,
    timeUntilTabletHasEntered |-> StarsLayerWindow(n).durationInFrames,
    timeUntilTabletHides |-> getStarFlyDurationOf(n) + TABLET_SCENE_LENGTH ]

\* the parent's own starsGiven (MOCK_STARS_GIVEN) and the values up to
\* MaxStarsGiven
CockpitPropsSet == {CockpitProps(n) : n \in (0..MaxStarsGiven) \cup {MOCK_STARS_GIVEN}}

\* {frame < timeUntilTabletIsEntered || frame > timeUntilTabletHides ?
\*    <StarsGiven .../> : null}
CockpitMounted(f, p) ==
  f < p.timeUntilTabletHasEntered \/ f > p.timeUntilTabletHides

\* One render of the parent's conditional at frame f: the scene rendered
\* from the caches m, or nothing rendered and the caches gone.
CockpitRender(f, p, m) ==
  IF CockpitMounted(f, p)
  THEN LET m2 == CockpitMemo(f, p, m) IN
       [memo |-> m2, view |-> CockpitScene(f, p, m2)]
  ELSE [memo |-> CockpitEmptyMemo, view |-> [mounted |-> FALSE]]

\* frames the playhead can be dragged to
CockpitSeekFrames == {0, 30, 75, 125, 200, MaxFrame}

CockpitInit ==
  /\ frame = 0
  /\ props \in CockpitPropsSet
  /\ memo = CockpitRender(0, props, CockpitEmptyMemo).memo
  /\ view = CockpitRender(0, props, CockpitEmptyMemo).view
  /\ zoomRun = NoRun
  /\ tabletRun = NoRun

CockpitGo(f, p) ==
  LET r == CockpitRender(f, p, memo) IN
  /\ frame' = f
  /\ props' = p
  /\ memo' = r.memo
  /\ view' = r.view
  /\ UNCHANGED <<zoomRun, tabletRun>>

CockpitNextFrame == frame < MaxFrame /\ CockpitGo(frame + 1, props)

CockpitPrevFrame == frame > 0 /\ CockpitGo(frame - 1, props)

CockpitSeek(f) == f # frame /\ CockpitGo(f, props)

CockpitSetProps(p) == p # props /\ CockpitGo(frame, p)

CockpitNext ==
  \/ CockpitNextFrame
  \/ CockpitPrevFrame
  \/ \E f \in CockpitSeekFrames : CockpitSeek(f)
  \/ \E p \in CockpitPropsSet : CockpitSetProps(p)

CockpitSpec == CockpitInit /\ [][CockpitNext]_vars

(***************************************************************************)
(* The two memoizing components side by side: a state is a render either   *)
(* of the StarsAndProductivityWithAudio composition or of the cockpit      *)
(* scene, and every step renders that same component again.                *)
(***************************************************************************)
\* the component the state is a render of, told by its props
IsComposition == "topWeekday" \in DOMAIN props

ScenesInit == Init \/ CockpitInit

ScenesNext ==
  \/ IsComposition /\ Next
  \/ ~IsComposition /\ CockpitNext

ScenesSpec == ScenesInit /\ [][ScenesNext]_vars

(***************************************************************************)
(* The CustomOpening composition: fundamentals/CustomOpening.tsx.  frame   *)
(* is the composition's frame, props its props, view the animation values  *)
(* of one render.                                                          *)
(***************************************************************************)
CUSTOM_OPENING_DURATION == 130

ZOOM_IN_DELAY == 10

ZOOM_IN_DURATION == 60

TITLE_DELAY == 50

TITLE_DURATION == 50

\* EXIT_DELAY = durationInFrames - 20
EXIT_DELAY(durationInFrames) == durationInFrames - 20

EXIT_DURATION == 60

\* zoomInProgress, over ZOOM_IN_DURATION
zoomInProgress(f) == clamp01(f - ZOOM_IN_DELAY, ZOOM_IN_DURATION)

\* titleProgress, over TITLE_DURATION
titleProgress(f) == clamp01(f - TITLE_DELAY, TITLE_DURATION)

\* exitProgress = Math.max(0, Math.min(1, (frame - EXIT_DELAY) / EXIT_DURATION)),
\* over EXIT_DURATION
openingExitProgress(f, durationInFrames) ==
  clamp01(f - EXIT_DELAY(durationInFrames), EXIT_DURATION)

\* easeOutCubic(t) = 1 - Math.pow(1 - t, 3), for t = c/d over d^3
easeOutCubic(c, d) == Cube(d) - Cube(d - c)

\* scale = 2.5 - zoomInProgress * 1.5, over 2 * ZOOM_IN_DURATION
openingScale(f) == 5 * ZOOM_IN_DURATION - 3 * zoomInProgress(f)

\* exitScale = 1 + exitProgress * 1.5, over 2 * EXIT_DURATION
exitScale(f, durationInFrames) ==
  2 * EXIT_DURATION + 3 * openingExitProgress(f, durationInFrames)

\* exitOpacity = Math.max(0, 1 - exitProgress), over EXIT_DURATION
exitOpacity(f, durationInFrames) ==
  Max(0, EXIT_DURATION - openingExitProgress(f, durationInFrames))

\* const {durationInFrames} = useVideoConfig(): the composition's duration
CustomOpening(f, p, durationInFrames) ==
  [ name |-> p.name,
    zoomInProgress |-> zoomInProgress(f),
    titleProgress |-> titleProgress(f),
    exitProgress |-> openingExitProgress(f, durationInFrames),
    scale |-> openingScale(f),
    titleOpacity |-> easeOutCubic(titleProgress(f), TITLE_DURATION),
    exitScale |-> exitScale(f, durationInFrames),
    exitOpacity |-> exitOpacity(f, durationInFrames) ]

\* defaultProps of the composition and another name
OpeningPropsSet ==
  { [name |-> "John Doe", avatarUrl |-> "https://i.pravatar.cc/150?img=1"],
    [name |-> "Jane Roe", avatarUrl |-> "https://i.pravatar.cc/150?img=2"] }

OpeningInit ==
  /\ frame = 0
  /\ props \in OpeningPropsSet
  /\ view = CustomOpening(0, props, CUSTOM_OPENING_DURATION)
  /\ memo = EmptyMemo
  /\ zoomRun = NoRun
  /\ tabletRun = NoRun

OpeningGo(f, p) ==
  /\ frame' = f
  /\ props' = p
  /\ view' = CustomOpening(f, p, CUSTOM_OPENING_DURATION)
  /\ UNCHANGED <<memo, zoomRun, tabletRun>>

\* the composition has the frames 0 .. durationInFrames - 1
OpeningNextFrame == frame < CUSTOM_OPENING_DURATION - 1 /\ OpeningGo(frame + 1, props)

OpeningPrevFrame == frame > 0 /\ OpeningGo(frame - 1, props)

OpeningSetProps(p) == p # props /\ OpeningGo(frame, p)

OpeningNext ==
  \/ OpeningNextFrame
  \/ OpeningPrevFrame
  \/ \E p \in OpeningPropsSet : OpeningSetProps(p)

OpeningSpec == OpeningInit /\ [][OpeningNext]_vars

(***************************************************************************)
(* Properties.                                                             *)
(***************************************************************************)
\* the last frame of the StarsAndProductivity composition
LastFrame == getStarsAndProductivityDuration - 1

IsPrefix(s, t) == Len(s) <= Len(t) /\ \A i \in 1..Len(s) : s[i] = t[i]

PhaseCycle == <<"Hidden", "Entering", "Visible", "Exiting", "Hidden">>

\* a fresh, uncached evaluation of the current frame with the current props
FreshMemo ==
  IF IsComposition
  THEN RenderMemo(frame, props, EmptyMemo)
  ELSE CockpitRender(frame, props, CockpitEmptyMemo).memo

FreshView ==
  IF IsComposition
  THEN RenderView(frame, props, FreshMemo)
  ELSE CockpitRender(frame, props, CockpitEmptyMemo).view

\* the two wheels of the tablet with their configuration
Wheels(t) ==
  { [w |-> t.weekdayWheel, value |-> props.topWeekday, n |-> WeekdayValues, delay |-> WeekdayDelay],
    [w |-> t.hourWheel, value |-> props.topHour, n |-> HourValues, delay |-> HourDelay] }

\* C1, levels: zoomTransition is 0 up to frame 150, 1 on frames 195..300,
\* 0 from frame 345 on, and always within [0, 1].
C1_Levels ==
  /\ view.zoomTransition >= 0 /\ view.zoomTransition <= ZoomDen
  /\ frame <= 150 => view.zoomTransition = 0
  /\ (frame >= 195 /\ frame <= 300) => view.zoomTransition = ZoomDen
  /\ frame >= 345 => view.zoomTransition = 0

\* C1, slopes: from one frame to the next zoomTransition does not decrease
\* on frames 150..195 and does not increase on frames 300..345.
C1_Slopes ==
  frame' = frame + 1 =>
    /\ (frame >= 150 /\ frame' <= 195) => view'.zoomTransition >= view.zoomTransition
    /\ (frame >= 300 /\ frame' <= 345) => view'.zoomTransition <= view.zoomTransition

\* C1: with entry at frame 150 and exit at frame 300, 45 frames each,
\* transitionValue = entryProgress - exitProgress is 0 up to frame 150, rises
\* monotonically from 0 to 1 over 150..195, is 1 on 195..300, falls
\* monotonically from 1 to 0 over 300..345, is 0 from 345 on, and never
\* leaves [0, 1].
C1_TransitionShape == []C1_Levels /\ [][C1_Slopes]_vars

\* C1 witness: a frame in the middle of the exit, the value strictly between 0 and 1
C1_Witness ==
  frame = 322 /\ view.zoomTransition > 0 /\ view.zoomTransition < ZoomDen

\* C2: played from its frame 0, a transitioning element (the zoom transition,
\* the tablet's toFullscreen value) goes through Hidden, Entering, Visible,
\* Exiting, Hidden in this order, without skipping, repeating or revisiting a
\* state; it is Hidden at frame 0 and Hidden again at the final frame.
C2_PhaseOrder ==
  /\ frame = 0 => ZoomPhase(view) = "Hidden"
  /\ zoomRun.fromStart => IsPrefix(zoomRun.phases, PhaseCycle)
  /\ (zoomRun.fromStart /\ frame >= LastFrame) => zoomRun.phases = PhaseCycle
  /\ (view.tablet.mounted /\ view.tablet.frame = 0) => TabletPhase(view.tablet) = "Hidden"
  /\ tabletRun.fromStart => IsPrefix(tabletRun.phases, PhaseCycle)
  /\ (tabletRun.fromStart /\ view.tablet.mounted
        /\ view.tablet.frame = TabletSequenceDuration - 1) => tabletRun.phases = PhaseCycle

\* C2 witness: the composition was played from frame 0 to its last frame and
\* both elements completed the cycle
C2_Witness ==
  /\ frame = LastFrame
  /\ zoomRun.fromStart /\ zoomRun.phases = PhaseCycle
  /\ tabletRun.fromStart /\ tabletRun.phases = PhaseCycle

\* C3: the tablet scene, placed in the window start 150, duration 195, is
\* rendered exactly at the frames 150 <= frame < 345, and the local frame it
\* sees is frame - 150, always >= 0 and < 195.
C3_TabletWindow ==
  /\ view.tablet.mounted <=> (150 <= frame /\ frame < 150 + 195)
  /\ view.tablet.mounted =>
       /\ view.tablet.frame = frame - 150
       /\ view.tablet.frame >= 0
       /\ view.tablet.frame < 195

\* C3 witness: the last frame of the window, global 344 seen as local 194
C3_Witness == frame = 344 /\ view.tablet.mounted /\ view.tablet.frame = 194

\* C4: at no frame are the StarsGiven scene and the tablet scene both rendered.
C4_NoOverlap == ~(view.starsGiven.mounted /\ view.tablet.mounted)

\* C5: at every frame of the composition at least one of the StarsGiven
\* scene and the tablet scene is mounted.
C5_EveryFrameAssigned ==
  frame < getStarsAndProductivityDuration =>
    (view.starsGiven.mounted \/ view.tablet.mounted)

\* C5 witness: frame 300, where StarsGiven is not rendered (300 > 300 is
\* false) and the tablet alone covers the frame
C5_Witness == frame = 300 /\ ~view.starsGiven.mounted /\ view.tablet.mounted

\* C6: whatever frames were rendered before and in whatever order, what a
\* component (the composition, the cockpit scene) shows at a frame is what a
\* fresh evaluation of (frame, props) gives, the hit indices and hit frames
\* of the cockpit scene included.
C6_Deterministic == view = FreshView

\* C6 witness: the cockpit scene at frame 75, reached by a jump of the
\* playhead from an earlier render, shows its three seeded hits and the
\* HUD text of the last one
C6_Witness ==
  /\ ~IsComposition
  /\ frame = 75
  /\ memo.hitIndices.deps = <<6, 3>>
  /\ Len(view.hitIndices) = 3
  /\ view.hits = <<30, 50, 60>>
  /\ view.text.shown /\ view.text.repo = 2

\* C7: every memoized value that is in a cache equals the value a fresh,
\* uncached computation gives for the current frame and props.
C7_MemoTransparent ==
  \A k \in DOMAIN memo : memo[k].set => memo[k].val = FreshMemo[k].val

\* C7 witness: the caches of the cockpit scene hold the eight hits and a
\* star counter in the middle of its count
C7_Witness ==
  /\ ~IsComposition
  /\ memo.hits.set /\ Len(memo.hits.val) = MAX_HITS
  /\ memo.starCount.set /\ memo.starCount.val > 0
  /\ memo.starCount.val < props.starsGiven
  /\ memo.text.set /\ memo.text.val.shown

\* the composition's caches after out-of-order evaluation: the star style of
\* a frame inside the zoom, reached by scrubbing
C7_WitnessComposition ==
  /\ IsComposition
  /\ ~zoomRun.fromStart
  /\ memo.starStyle.set /\ memo.starFlyDuration.set /\ memo.timeUntilTabletHides.set
  /\ view.zoomTransition > 0

\* the spin of a wheel has stopped at local frame lf
Settled(lf, delay) == lf >= delay + DURATION_FRAMES

\* C8 as stated: an item has opacity 1 only when it is the selected item and
\* the wheel has stopped spinning; before that every item has opacity 0.3.
C8_HighlightOnlySettled ==
  view.tablet.mounted =>
    \A x \in Wheels(view.tablet) : \A i \in DOMAIN x.w.items :
      /\ x.w.items[i].textOpacity = 10 =>
           (x.w.items[i].isSelected /\ Settled(view.tablet.frame, x.delay))
      /\ ~Settled(view.tablet.frame, x.delay) => x.w.items[i].textOpacity = 3

\* C8 amended: an item has opacity 1 exactly when it is the selected item and
\* the frame is past delay + 5; every other item, and every item at a frame
\* up to delay + 5, has opacity 0.3.
C8_HighlightAfterDelay ==
  view.tablet.mounted =>
    \A x \in Wheels(view.tablet) : \A i \in DOMAIN x.w.items :
      IF x.w.items[i].currentValueIndex = x.value /\ view.tablet.frame > x.delay + 5
      THEN x.w.items[i].textOpacity = 10
      ELSE x.w.items[i].textOpacity = 3

\* C8 witness: the weekday wheel is still turning and its selected item is
\* already drawn with opacity 1
C8_Witness ==
  /\ view.tablet.mounted
  /\ view.tablet.frame = WeekdayDelay + 6
  /\ view.tablet.weekdayWheel.rotationValue > 0
  /\ view.tablet.weekdayWheel.items[0].textOpacity = 10

\* C9: once the spin has completed (frame >= delay + 100) the rotation offset
\* is 0, a slot stands at the front of the wheel, and every slot at the front
\* shows the selected value; this holds at every later frame.
C9_StopsAtSelected ==
  view.tablet.mounted =>
    \A x \in Wheels(view.tablet) :
      Settled(view.tablet.frame, x.delay) =>
        /\ x.w.rotationValue = 0
        /\ \E i \in DOMAIN x.w.items : x.w.items[i].atFront
        /\ \A i \in DOMAIN x.w.items :
             x.w.items[i].atFront => x.w.items[i].currentValueIndex = x.value

\* C9 witness: the weekday wheel at the frame its spin completes
C9_Witness ==
  /\ view.tablet.mounted
  /\ view.tablet.frame = WeekdayDelay + DURATION_FRAMES
  /\ view.tablet.weekdayWheel.rotationValue = 0
  /\ view.tablet.weekdayWheel.items[0].atFront
  /\ view.tablet.weekdayWheel.items[0].currentValueIndex = props.topWeekday

\* C10: once a wheel has settled, exactly one slot index in [0, n) has
\* isSelected true, and that slot is the only one drawn with opacity 1.
C10_ExactlyOneSelected ==
  view.tablet.mounted =>
    \A x \in Wheels(view.tablet) :
      Settled(view.tablet.frame, x.delay) =>
        /\ Cardinality({i \in DOMAIN x.w.items : x.w.items[i].isSelected}) = 1
        /\ {i \in DOMAIN x.w.items : x.w.items[i].textOpacity = 10}
             = {i \in DOMAIN x.w.items : x.w.items[i].isSelected}
        /\ DOMAIN x.w.items = 0..(x.n - 1)

\* C10 witness: the hour wheel (24 slots) settled, slot 0 selected and highlighted
C10_Witness ==
  /\ view.tablet.mounted
  /\ Settled(view.tablet.frame, HourDelay)
  /\ view.tablet.hourWheel.items[0].isSelected
  /\ view.tablet.hourWheel.items[0].textOpacity = 10
  /\ props.topHour = 23

\* C11: for a selected value that is not negative, the wheel has the slots
\* 0..n-1, slot i displays values[(i + selectedValue) mod n], and that index
\* is within [0, n); for n = 7 and selectedValue = 3 slot 6 shows value 2 and
\* slot 4 shows value 0.
C11_Wraparound ==
  (view.rendered /\ props.value >= 0 /\ props.n > 0) =>
    /\ DOMAIN view.labels = 0..(props.n - 1)
    /\ \A i \in DOMAIN view.labels :
         /\ view.labels[i].label.defined
         /\ view.labels[i].label.index = (i + props.value) % props.n
         /\ view.labels[i].label.index \in 0..(props.n - 1)
    /\ (props.n = 7 /\ props.value = 3) =>
         /\ view.labels[6].label.index = 2
         /\ view.labels[4].label.index = 0

\* C11 witness: the weekday wheel with value 3, slot 6 wrapped around to 2
C11_Witness ==
  /\ frame = 160
  /\ props.n = 7 /\ props.value = 3
  /\ view.labels[6].label.defined
  /\ view.labels[6].label.index = 2
  /\ view.labels[4].label.index = 0

\* C12: a wheel whose selected value is negative is rejected: it is not
\* rendered, so no slot of it shows a wrapped value or resolves to a value
\* index outside [0, n).
C12_NegativeRejected ==
  props.value < 0 =>
    /\ ~view.rendered
    /\ \A i \in DOMAIN view.wheel.items :
         view.wheel.items[i].currentValueIndex \in 0..(props.n - 1)

\* C14: every bar's normalized productivity (productivity / maxProductivity)
\* is a finite number in [0, 1], also for data whose productivities are all 0.
C14_NormalizedFinite ==
  \A i \in DOMAIN view.bars :
    /\ view.bars[i].productivity.kind = "finite"
    /\ view.bars[i].productivity.n >= 0
    /\ view.bars[i].productivity.n <= view.bars[i].productivity.d

\* C15: each rotation and skew component of the tablet frame (parent) is the
\* exact negative of the same component of the chart, at every frame.
C15_OpposingTransforms ==
  view.tablet.mounted =>
    \A k \in {"rotateY", "rotateX", "skewX", "skewY"} :
      /\ view.layers.parent[k].d = view.layers.chart[k].d
      /\ view.layers.parent[k].n = 0 - view.layers.chart[k].n

\* C15 witness: halfway through the tablet's exit the chart is tilted by a
\* non-zero rotateY and the frame by its negative
C15_Witness ==
  /\ view.tablet.mounted
  /\ view.tablet.frame = 172
  /\ view.layers.chart.rotateY.n > 0
  /\ view.layers.parent.rotateY.n < 0
  /\ view.layers.parent.skewY.n > 0

\* the tablet's blend progress is 0 (before entry, after exit)
AtRest(t) == t.toFullscreenFull = 0

\* the tablet's blend progress is 1 (fully entered)
FullyEntered(t) == t.toFullscreenFull = TabletDen

\* C16: at blend progress 0 the frame's rotateY is 0 and the chart's is
\* 15 deg; at blend progress 1 the frame's is -15 deg and the chart's is 0
\* (the ranges the code notes beside the transforms: 15 -> 0, 0 -> -15).
C16_RotationEndpoints ==
  view.tablet.mounted =>
    /\ AtRest(view.tablet) =>
         /\ view.layers.parent.rotateY = Rat(0, 1)
         /\ view.layers.chart.rotateY = Rat(15, 1)
    /\ FullyEntered(view.tablet) =>
         /\ view.layers.parent.rotateY = Rat(0 - 15, 1)
         /\ view.layers.chart.rotateY = Rat(0, 1)

\* C17: at progress 0 the chart's scale is 0.4 and the frame's is 1; fully
\* entered (progress 1) the chart's scale is 1 and the frame's is
\* (1 / (1 - 0.8 * 0.5)) * 1.3 = 13/6 (the range the code notes: 0.4 -> 1).
C17_ScaleEndpoints ==
  view.tablet.mounted =>
    /\ AtRest(view.tablet) =>
         /\ view.layers.chart.scale = Rat(4, 10)
         /\ view.layers.parent.scale = Rat(1, 1)
    /\ FullyEntered(view.tablet) =>
         /\ view.layers.chart.scale = Rat(1, 1)
         /\ view.layers.parent.scale = Rat(13, 6)

\* the labels of the tablet's two wheels
WheelLabelSets == {view.weekdayLabels, view.hourLabels}

\* C18: for every wheel item at every frame the label's rotation is the exact
\* negative of the item's rotation, so that item rotation plus label rotation
\* is 0.
C18_CounterRotation ==
  \A ls \in WheelLabelSets : \A i \in DOMAIN ls :
    /\ ls[i].rotation.valid
    /\ ls[i].labelRotation.valid
    /\ ls[i].labelRotation.angle = 0 - ls[i].rotation.angle
    /\ ls[i].rotation.angle + ls[i].labelRotation.angle = 0

\* C19: the progress of every delayed animation (orchestrator entry and exit,
\* tablet entry and exit, wheel spin, bar growth) is exactly 0 at every frame
\* before its start frame and is never negative.
C19_ZeroBeforeDelay ==
  /\ view.entryProgress >= 0 /\ view.exitProgress >= 0
  /\ frame < getStarFlyDuration => view.entryProgress = 0
  /\ frame < getStarFlyDuration + TABLET_SCENE_LENGTH => view.exitProgress = 0
  /\ view.tablet.entryProgress >= 0 /\ view.tablet.exitProgress >= 0
  /\ frame < TABLET_SCENE_ENTER_ANIMATION_DELAY => view.tablet.entryProgress = 0
  /\ frame < TABLET_SCENE_LENGTH => view.tablet.exitProgress = 0
  /\ view.tablet.weekdayWheel.progress >= 0 /\ view.tablet.hourWheel.progress >= 0
  /\ frame < WeekdayDelay => view.tablet.weekdayWheel.progress = 0
  /\ frame < HourDelay => view.tablet.hourWheel.progress = 0
  /\ \A i \in DOMAIN view.bars :
       /\ view.bars[i].easedProgress >= 0
       /\ frame < 30 + 2 * view.bars[i].index => view.bars[i].easedProgress = 0

\* C19 witness: frame 45, the first bar and the tablet's entry are under way
\* while the wheels, the last bar and both exits have not started
C19_Witness ==
  /\ frame = 45
  /\ view.tablet.entryProgress > 0
  /\ view.bars[1].easedProgress > 0
  /\ view.bars[24].easedProgress = 0
  /\ view.tablet.weekdayWheel.progress = 0
  /\ view.tablet.exitProgress = 0
  /\ view.entryProgress = 0

\* C20: every opacity produced lies in [0, 1]: the StarsGiven zoom opacity,
\* its background and text fade products, the wheel items' text opacity and
\* the cockpit HUD's repository-text opacity.
C20_OpacityInUnitRange ==
  IF IsComposition
  THEN
  /\ view.starsGiven.mounted =>
       /\ view.starsGiven.style.opacity >= 0
       /\ view.starsGiven.style.opacity <= 10 * ZoomDen
       /\ view.starsGiven.backgroundOpacity >= 0
       /\ view.starsGiven.backgroundOpacity <= 300
       /\ view.starsGiven.textOpacity >= 0
       /\ view.starsGiven.textOpacity <= StarsTextDen
  /\ view.tablet.mounted =>
       \A x \in Wheels(view.tablet) : \A i \in DOMAIN x.w.items :
         x.w.items[i].textOpacity >= 0 /\ x.w.items[i].textOpacity <= 10
  ELSE
  (view.mounted /\ view.text.shown) =>
    (view.text.opacity >= 0 /\ view.text.opacity <= 2)

\* C21: at the frames after the tablet starts exiting (frame > 300, up to the
\* last frame 344) the StarsGiven scene is visible again: it is mounted and
\* not fully transparent, that is its own opacity is above 0 and at least one
\* of its two layers (gradient background, text) has an opacity above 0.
C21_BookendVisible ==
  (frame > getTimeUntilTabletHides /\ frame < getStarsAndProductivityDuration) =>
    /\ view.starsGiven.mounted
    /\ view.starsGiven.style.opacity > 0
    /\ (view.starsGiven.backgroundOpacity > 0 \/ view.starsGiven.textOpacity > 0)

\* C22: the composition lasts getStarFlyDuration + TABLET_SCENE_LENGTH +
\* TABLET_SCENE_HIDE_ANIMATION = 150 + 150 + 45 = 345 frames, and the tablet's
\* window (start 150, length 195) closes exactly at the composition's end: the
\* tablet is rendered from frame 150 up to the last frame 344, where it sees
\* the last local frame of its window, and at no frame from 345 on.
C22_DurationAndWindow ==
  /\ getStarsAndProductivityDuration
       = getStarFlyDuration + TABLET_SCENE_LENGTH + TABLET_SCENE_HIDE_ANIMATION
  /\ getStarsAndProductivityDuration = 345
  /\ memo.starFlyDuration.val = 150
  /\ TabletSequenceDuration = 195
  /\ memo.starFlyDuration.val + TabletSequenceDuration = getStarsAndProductivityDuration
  /\ view.tablet.mounted <=>
       (memo.starFlyDuration.val <= frame /\ frame < getStarsAndProductivityDuration)
  /\ frame = getStarsAndProductivityDuration - 1 =>
       (view.tablet.mounted /\ view.tablet.frame = TabletSequenceDuration - 1)

\* C22 witness: the composition's last frame is the last frame of the
\* tablet's window
C22_Witness ==
  /\ frame + 1 = getStarsAndProductivityDuration
  /\ view.tablet.mounted
  /\ view.tablet.frame + 1 = TabletSequenceDuration
  /\ memo.starFlyDuration.val + view.tablet.frame = frame

\* C23: each sound starts playing at its AUDIO_TIMING frame counted from the
\* composition's frame 0: it is not playing at any earlier frame, and at that
\* frame it plays from the beginning of its media (music 0, stars whoosh 10,
\* tablet entry 150, bars 180, weekday wheel 195, hour wheel 220).
C23_SoundStartsAtTiming ==
  \A k \in DOMAIN AUDIO_TIMING :
    /\ frame < AUDIO_TIMING[k] => ~view.audio[k].mounted
    /\ frame = AUDIO_TIMING[k] =>
         (view.audio[k].mounted /\ view.audio[k].mediaFrame = 0)

\* s1 + ... + sN of a chain of windows
RECURSIVE SumOfStarts(_)
SumOfStarts(ws) == IF Len(ws) = 0 THEN 0 ELSE ws[1].from + SumOfStarts(Tail(ws))

\* the window k of the chain is active: its parent's frame, the global frame
\* less the starts of the windows around it, lies inside it
WindowActive(ws, k) ==
  LET pf == frame - SumOfStarts(SubSeq(ws, 1, k - 1)) IN
  ws[k].from <= pf /\ pf < ws[k].from + ws[k].durationInFrames

\* C24: a child nested inside windows with starts s1..sN sees the local
\* frame global frame - (s1 + ... + sN) and is active exactly when every
\* enclosing window is active; its local frame is the one a single Sequence
\* with the cumulative offset gives.
C24_NestingAssociative ==
  /\ view.frame = frame - SumOfStarts(props)
  /\ view.frame = SequenceFrame(frame, SumOfStarts(props))
  /\ view.active <=> \A k \in 1..Len(props) : WindowActive(props, k)

\* C24 witness: star 2 inside the stars layer, inside a Sequence starting at
\* 150: at frame 250 it is active and sees frame 250 - (150 + 0 + 40) = 60
C24_Witness ==
  /\ props = <<TabletWindow, StarsLayerWindow(3), StarWindow(2)>>
  /\ frame = 250
  /\ view.active
  /\ view.frame = 60

\* C25: getHitIndexes returns exactly min(starsGiven, 8) indices, pairwise
\* distinct, each an integer in [0, starsDisplayed); the value is what the
\* scene's hitIndices memo holds.
C25_HitIndexes ==
  view.returned =>
    /\ Len(view.value) = Min(props.starsGiven, 8)
    /\ \A j, k \in 1..Len(view.value) : j # k => view.value[j] # view.value[k]
    /\ \A j \in 1..Len(view.value) :
         view.value[j] \in 0..(props.starsDisplayed - 1)
    /\ view.value = getHitIndexes(props.starsDisplayed, props.starsGiven)

\* C25 witness: 16 stars displayed, 8 hits returned after 9 draws, one of
\* which repeated an index already in the Set
C25_Witness ==
  /\ view.returned
  /\ props.starsDisplayed = 16 /\ props.starsGiven = 8
  /\ view.i = 9
  /\ view.value = <<1, 7, 8, 6, 5, 11, 9, 0>>

\* the call the scene makes: starsDisplayed = getActualStars(starsGiven)
CalledByScene == props.starsDisplayed = getActualStars(props.starsGiven)

\* C26, the counts: in the scene's call the number of hits requested,
\* min(starsGiven, 8), does not exceed starsDisplayed, which is within [5, 20].
C26_EnoughIndices ==
  CalledByScene =>
    /\ maxHits(props.starsGiven) = Min(props.starsGiven, 8)
    /\ maxHits(props.starsGiven) <= props.starsDisplayed
    /\ props.starsDisplayed >= 5 /\ props.starsDisplayed <= 20
    /\ Len(view.hitIndexes) <= maxHits(props.starsGiven)

\* C26: for every starsGiven >= 0 the hit-selection loop of the scene's call
\* (starsDisplayed = getActualStars(starsGiven)) terminates: the call returns.
\* The hits requested never exceed the indices available.
C26_LoopTerminates == []C26_EnoughIndices /\ (CalledByScene ~> view.returned)

\* C26 witness: the scene's call for starsGiven = 10 (20 stars displayed) has
\* returned its 8 hits after 9 turns of the loop
C26_Witness ==
  /\ CalledByScene
  /\ props.starsGiven = 10 /\ props.starsDisplayed = 20
  /\ view.returned
  /\ view.i = 9
  /\ Len(view.value) = 8

\* C27: at every frame of the stars phase (frame < star fly duration) the
\* star instances StarsFlying renders are the indices 0..starsDisplayed-1,
\* starsDisplayed = getActualStars(starsGiven) being the count hitIndices was
\* drawn from, and every index in hitIndices is a star that is rendered from
\* its launch frame 10 * index + 20 onward.
C27_HitStarsRendered ==
  (view.mounted /\ frame < view.durationOfStars /\ view.starsLayer.mounted) =>
    /\ view.starsDisplayed = getActualStars(props.starsGiven)
    /\ DOMAIN view.starsLayer.stars = 0..(view.starsDisplayed - 1)
    /\ \A j \in 1..Len(view.hitIndices) :
         frame >= 10 * view.hitIndices[j] + 20 =>
           /\ view.hitIndices[j] \in DOMAIN view.starsLayer.stars
           /\ view.starsLayer.stars[view.hitIndices[j]].rendered
           /\ view.starsLayer.stars[view.hitIndices[j]].hitSpaceship

\* C28, values: the HUD star counter lies within [0, starsGiven], is 0 at
\* frame 0 and equals starsGiven at every frame from the end of the stars
\* phase (frame >= getStarFlyDuration(starsGiven)) on.
C28_CounterRange ==
  view.mounted =>
    /\ view.starCount >= 0 /\ view.starCount <= props.starsGiven
    /\ frame = 0 => view.starCount = 0
    /\ frame >= getStarFlyDurationOf(props.starsGiven) =>
         view.starCount = props.starsGiven

\* C28, steps: from one frame to the next the counter does not decrease.
C28_CounterStep ==
  (frame' = frame + 1 /\ props' = props /\ view.mounted /\ view'.mounted) =>
    view'.starCount >= view.starCount

\* C28: the cockpit HUD star counter is non-decreasing as the frame
\* increases, always within [0, starsGiven], 0 at frame 0, and equal to
\* starsGiven from the end of the stars phase on, with either counting
\* method (hits counted when hits.length = starsGiven, interpolation otherwise).
C28_StarCounter == []C28_CounterRange /\ [][C28_CounterStep]_vars

\* the counting method in effect: hits are counted
CountsHits == Len(view.hits) = props.starsGiven

\* C28 witness: 12 stars given, counted by interpolation, the counter half way
C28_Witness ==
  /\ view.mounted
  /\ props.starsGiven = 12 /\ ~CountsHits
  /\ frame = 125
  /\ view.starCount = 6

\* C29 as stated: when the tablet's exit transition begins (tablet-local
\* frame 150) and from then on, both wheels have finished spinning: their
\* rotation offset is 0, the selected item at rest at the front.
C29_SettledBeforeExit ==
  (view.tablet.mounted /\ view.tablet.frame >= TABLET_SCENE_LENGTH) =>
    /\ view.tablet.weekdayWheel.rotationValue = 0
    /\ view.tablet.hourWheel.rotationValue = 0

\* C29 amended: the weekday wheel (delay 60) is settled exactly from
\* tablet-local frame 160 on and the hour wheel (delay 70) from 170 on, that
\* is 10 and 20 frames after the exit transition begins at frame 150 and
\* before the tablet's window ends at 195; at frame 150 the exit has not
\* moved yet and the wheels are still 0.001 and 0.008 of a turn away from rest.
C29_SettleDuringExit ==
  view.tablet.mounted =>
    /\ view.tablet.weekdayWheel.rotationValue = 0
         <=> view.tablet.frame >= TABLET_SCENE_LENGTH + 10
    /\ view.tablet.hourWheel.rotationValue = 0
         <=> view.tablet.frame >= TABLET_SCENE_LENGTH + 20
    /\ view.tablet.exitProgress > 0 <=> view.tablet.frame > TABLET_SCENE_LENGTH
    /\ view.tablet.frame = TABLET_SCENE_LENGTH =>
         /\ 1000 * view.tablet.weekdayWheel.rotationValue = WheelDen
         /\ 1000 * view.tablet.hourWheel.rotationValue = 8 * WheelDen
    /\ TABLET_SCENE_LENGTH + 20 < TabletSequenceDuration

\* C29 witness: 5 frames into the exit both wheels are still turning, the
\* selected weekday already highlighted
C29_Witness ==
  /\ view.tablet.mounted
  /\ view.tablet.frame = TABLET_SCENE_LENGTH + 5
  /\ view.tablet.exitProgress > 0
  /\ view.tablet.weekdayWheel.rotationValue > 0
  /\ view.tablet.hourWheel.rotationValue > 0
  /\ view.tablet.weekdayWheel.items[0].textOpacity = 10

\* C30: in the CustomOpening composition (130 frames) the exit animation,
\* which starts 20 frames before the end, has run to completion by the final
\* frame: its progress is 1, the exit scale has gone from 1.0 to 2.5 and the
\* exit opacity has faded out to 0.
C30_ExitCompletes ==
  /\ frame <= CUSTOM_OPENING_DURATION - 20 =>
       /\ view.exitProgress = 0
       /\ view.exitScale = 2 * EXIT_DURATION
       /\ view.exitOpacity = EXIT_DURATION
  /\ frame = CUSTOM_OPENING_DURATION - 1 =>
       /\ view.exitProgress = EXIT_DURATION
       /\ 2 * view.exitScale = 5 * (2 * EXIT_DURATION)
       /\ view.exitOpacity = 0

====
